---- MODULE Spec2Model ----
(***************************************************************************)
(* Model of opentrack's Tracker (opentrack/tracker.cpp): the worker loop   *)
(* Tracker::run, one pipeline pass Tracker::logic, the curve mapping       *)
(* Tracker::map, the rotation helpers euler_to_rmat / t_compensate, the    *)
(* destructor and the accessor get_raw_and_mapped_poses, together with the *)
(* threads that flip the centre / enabled / quit flags and read the        *)
(* published poses.                                                        *)
(*                                                                         *)
(* Numbers.  A Pose is a function 0..5 -> Int (x, y, z, yaw, pitch, roll). *)
(* Translations are integers.  Rotations are counted in half turns (one    *)
(* unit is 180 degrees), the sub-domain of the doubles on which sin and    *)
(* cos of the angle and of the half angle are exactly -1, 0 or 1, so that  *)
(* the quaternion and matrix formulas are computed exactly as written.     *)
(***************************************************************************)
EXTENDS Integers, Sequences, FiniteSets, TLC

\* ------------------------------------------------------------------ bounds
\* number of threads calling get_raw_and_mapped_poses
NReaders == 1

\* lateIters stops counting here
MaxLateIters == 2

Readers == 1..NReaders

\* ------------------------------------------------------------------ poses
Axes == 0..5

TX == 0
TY == 1
TZ == 2
Yaw == 3
Pitch == 4
Roll == 5

\* a Pose written as a 6-tuple
MkPose(tup) == [i \in Axes |-> tup[i + 1]]

\* Pose p; a default-constructed Pose is the origin
PoseDefault == [i \in Axes |-> 0]

IsZero(p) == \A i \in Axes : p[i] = 0

\* values the raw source (libs.pTracker->data) may deliver
Samples ==
  { MkPose(<<0, 0, 0, 0, 0, 0>>),
    MkPose(<<1, -2, 3, 1, 0, 1>>) }

\* the value a filter (libs.pFilter->filter) may write instead of its input
FilterLag == MkPose(<<-1, 2, 1, -1, 1, 1>>)

\* ------------------------------------------------------------ trigonometry
\* angles are integers counting half turns; HalfCos(n) = cos(n * 90 deg)
HalfCos(n) == CASE n % 4 = 0 -> 1 [] n % 4 = 2 -> -1 [] OTHER -> 0

HalfSin(n) == CASE n % 4 = 1 -> 1 [] n % 4 = 3 -> -1 [] OTHER -> 0

\* cos and sin of the full angle n * 180 deg
Cos(n) == IF n % 2 = 0 THEN 1 ELSE -1

Sin(n) == 0

\* atan2(y, x) in half turns, on the arguments the unit quaternions produce
Atan2(y, x) == IF y = 0 /\ x < 0 THEN 1 ELSE 0

\* asin(v) in half turns
Asin(v) == 0

\* -------------------------------------------------------------- quaternions
Quat(a, b, c, d) == [a |-> a, b |-> b, c |-> c, d |-> d]

\* Quat(): the identity rotation
QuatDefault == Quat(1, 0, 0, 0)

from_euler_rads(yaw, pitch, roll) ==
  LET sin_phi == HalfSin(roll)
      cos_phi == HalfCos(roll)
      sin_the == HalfSin(pitch)
      cos_the == HalfCos(pitch)
      sin_psi == HalfSin(yaw)
      cos_psi == HalfCos(yaw)
  IN Quat(cos_phi * cos_the * cos_psi + sin_phi * sin_the * sin_psi,
          sin_phi * cos_the * cos_psi - cos_phi * sin_the * sin_psi,
          cos_phi * sin_the * cos_psi + sin_phi * cos_the * sin_psi,
          cos_phi * cos_the * sin_psi - sin_phi * sin_the * cos_psi)

inv(q) == Quat(q.a, -q.b, -q.c, -q.d)

QuatMul(A, B) ==
  Quat(A.a * B.a - A.b * B.b - A.c * B.c - A.d * B.d,
       A.a * B.b + A.b * B.a + A.c * B.d - A.d * B.c,
       A.a * B.c - A.b * B.d + A.c * B.a + A.d * B.b,
       A.a * B.d + A.b * B.c - A.c * B.b + A.d * B.a)

\* <<yaw, pitch, roll>> of q
to_euler_degrees(q) ==
  << Atan2(2 * (q.a * q.d + q.b * q.c), 1 - 2 * (q.c * q.c + q.d * q.d)),
     Asin(2 * (q.a * q.c - q.b * q.d)),
     Atan2(2 * (q.a * q.b + q.c * q.d), 1 - 2 * (q.b * q.b + q.c * q.c)) >>

\* ------------------------------------------------------- rotation matrices
\* tait-bryan angles; input is <<yaw, pitch, roll>>, the result is the
\* 3x3 matrix as a tuple of rows
euler_to_rmat(input) ==
  LET H == input[2]
      P == input[1]
      B == input[3]
      c1 == Cos(H)
      s1 == Sin(H)
      c2 == Cos(P)
      s2 == Sin(P)
      c3 == Cos(B)
      s3 == Sin(B)
  IN << << c2 * c3, -(c2 * s3), s2 >>,
        << c1 * s3 + c3 * s1 * s2, c1 * c3 - s1 * s2 * s3, -(c2 * s1) >>,
        << s1 * s3 - c1 * c3 * s2, c3 * s1 + c1 * s2 * s3, c1 * c2 >> >>

\* rmat * tvec for a 3x3 matrix and a 3-vector
MatVec(rmat, v) ==
  [r \in 1..3 |-> rmat[r][1] * v[1] + rmat[r][2] * v[2] + rmat[r][3] * v[3]]

\* the three translation components written to output[0..2]
\* t_compensate writing the rotated z whatever rz is
t_compensate_rotz(rmat, xyz, rz) ==
  LET xyz_ == << -xyz[TX], -xyz[TY], xyz[TZ] >>
      ret == MatVec(rmat, xyz_)
  IN << -ret[1], -ret[2], ret[3] >>

t_compensate(rmat, xyz, rz) ==
  LET xyz_ == << -xyz[TX], -xyz[TY], xyz[TZ] >>
      ret == MatVec(rmat, xyz_)
  IN << -ret[1], -ret[2], IF ~rz THEN ret[3] ELSE xyz[TZ] >>

\* ------------------------------------------------------------------ curves
\* axis.curve.getValue(pos)
CurveValue(pos) == pos

\* axis.curveAlt.getValue(pos)
CurveAltValue(pos) == 2 * pos

\* map choosing the alternate curve by the sign alone, whatever invertp is
map_altp_sign(pos, invertp, axis) == (pos < 0) /\ axis.altp

\* the alternate curve is selected
map_altp(pos, invertp, axis) == ((pos < 0) = ~invertp) /\ axis.altp

\* the value Tracker::map returns
map(pos, invertp, axis) ==
  (IF map_altp(pos, invertp, axis) THEN CurveAltValue(pos) ELSE CurveValue(pos))
    + axis.zero

\* ----------------------------------------------------------- configuration
Opts(invert, altp, zero, src) ==
  [invert |-> invert, altp |-> altp, zero |-> zero, src |-> src]

\* the six Mapping objects, written as four 6-tuples
MkMappings(inverts, altps, zeros, srcs) ==
  [i \in Axes |-> Opts(inverts[i + 1], altps[i + 1], zeros[i + 1], srcs[i + 1])]

\* the identity mapping
IdentityMappings ==
  MkMappings(<<FALSE, FALSE, FALSE, FALSE, FALSE, FALSE>>,
             <<FALSE, FALSE, FALSE, FALSE, FALSE, FALSE>>,
             <<0, 0, 0, 0, 0, 0>>,
             <<0, 1, 2, 3, 4, 5>>)

\* a mapping with inverted axes, alternate curves, zero offsets, sources that
\* differ from the axis and sources outside [0,6)
MixedMappings ==
  MkMappings(<<TRUE, FALSE, FALSE, TRUE, FALSE, FALSE>>,
             <<FALSE, TRUE, TRUE, TRUE, FALSE, TRUE>>,
             <<0, 1, 0, 0, 0, 1>>,
             <<1, 0, -1, 4, 6, 5>>)

MappingSets == {IdentityMappings, MixedMappings}

\* s.tcomp_p and s.tcomp_tz; tcomp_tz is read only if tcomp_p is set
SettingsSets ==
  {settings \in [tcomp_p : BOOLEAN, tcomp_tz : BOOLEAN] :
     settings.tcomp_tz => settings.tcomp_p}

\* libs: pFilter is set or null; pTracker delivers the values in pTracker
LibrarySets == [pFilter : BOOLEAN, pTracker : {Samples}]

\* const int sleep_ms = 3
sleep_ms == 3

\* nanoseconds t.elapsed() may report at the end of an iteration
Elapsed == {0, 1200000, 3000000, 7500000}

Max(x, y) == IF x >= y THEN x ELSE y

\* holders of the QMutex mtx: nobody, the worker, or reader r (a positive id)
MtxFree == 0

MtxWorker == -1

\* ---------------------------------------------------- the steps of a pass
\* filtered_pose[i] *= inverts[i] ? -1. : 1.
Inverted(pose, mappings) ==
  [i \in Axes |-> IF mappings[i].invert THEN -pose[i] ELSE pose[i]]

\* mapped_pose(i) = map(filtered_pose(i), inverts[i], m(i))
MappedPose(pose, mappings) ==
  [i \in Axes |-> map(pose[i], mappings[i].invert, mappings[i])]

\* the centered pose: translation minus t_b, rotation q * q_b.inv()
\* the centering leaving the latched q_b out of the rotation
Centered_nobase(mp, tb, qb) ==
  LET q == from_euler_rads(mp[Yaw], mp[Pitch], mp[Roll])
      ypr == to_euler_degrees(q)
  IN [i \in Axes |-> IF i < 3 THEN mp[i] - tb[i] ELSE ypr[i - 2]]

Centered(mp, tb, qb) ==
  LET q == from_euler_rads(mp[Yaw], mp[Pitch], mp[Roll])
      q_ == QuatMul(q, inv(qb))
      ypr == to_euler_degrees(q_)
  IN [i \in Axes |-> IF i < 3 THEN mp[i] - tb[i] ELSE ypr[i - 2]]

\* centered_: a copy of centered, its translation compensated if s.tcomp_p
Compensated(c, settings) ==
  IF settings.tcomp_p
  THEN LET out == t_compensate(euler_to_rmat(<<c[Yaw], c[Pitch], c[Roll]>>),
                               c, settings.tcomp_tz)
       IN [i \in Axes |-> IF i < 3 THEN out[i + 1] ELSE c[i]]
  ELSE c

\* Remap without the range test on src
Remap_norange(c_, mappings) == [i \in Axes |-> c_[i]]

\* the axis remap that fills mapped
Remap(c_, mappings) ==
  [i \in Axes |->
     LET k == mappings[i].src
     IN IF k < 0 \/ k >= 6 THEN 0 ELSE c_[i]]

\* ------------------------------------------------------------------- state
VARIABLES
  s, m, libs,                 \* the borrowed settings, mappings and libraries
  centerp, enabledp, should_quit,
  t_b, q_b,                   \* the centering state
  newpose, final_raw,
  output_pose, raw_6dof, mtx, \* the published poses and their mutex
  filtered_pose, mapped_pose, centered, centered_, mapped,  \* locals of logic
  curveActive, curveAltActive,\* setTrackingActive state of the twelve curves
  wpc, phase,                 \* the worker: position in run/logic, lifecycle
  usleep_arg,                 \* argument of the last usleep
  dpc,                        \* the thread running ~Tracker
  rpc, rout, rEarly,          \* the threads in get_raw_and_mapped_poses
  sent,                       \* history: last pose given to pProtocol->pose
  sawCenter,    \* history: the value if (centerp) read in this pass, if any
  passCleared,  \* history: this pass has executed centerp = false
  earlyReq,     \* history: a fresh centre request arrived in this pass after
                \* step 1 and before the pass tested centerp (kept until the
                \* pass has captured)
  lateReq,      \* history: a centre request arrived after the last test of
                \* centerp found the flag clear, or after the last centerp =
                \* false, and before step 1 of a later pass was done
  zeroSentAfterStop, \* history: an all-zero pose was sent with should_quit set
  shutdownRuns,      \* history: times the shutdown sequence was begun
  published,         \* history: a pass has written output_pose and raw_6dof
  filter_out,   \* history: filtered_pose as the filter step of this pass left
                \* it, before the inversion loop
  evalActive,   \* history: per axis, whether the curve getValue was called on
                \* in this pass was active when it was called
  lastPass,     \* history: final_raw of the pass that published last and the
                \* pose that pass had given to pProtocol->pose
  lastCall,     \* history: who called pProtocol->pose last: "logic", or
                \* "origin" for the call in run, or "none"
  lateIters,    \* history: loop iterations begun with should_quit set, until
                \* the loop is left
  t_elapsed,    \* the value t.elapsed() returned before the last usleep
  centerIn,     \* history: filter_out of the pass that captured last, as a
                \* set of at most one pose
  pendingReq,   \* history: a centre request was made and t_b, q_b have not
                \* been written since
  raceReq       \* history: a centre request was made between the test of
                \* centerp and centerp = false of the pass that is capturing

config == <<s, m, libs>>

flags == <<centerp, enabledp, should_quit>>

centering == <<t_b, q_b>>

bufs == <<newpose, final_raw>>

pub == <<output_pose, raw_6dof, mtx>>

locals == <<filtered_pose, mapped_pose, centered, centered_, mapped>>

curves == <<curveActive, curveAltActive>>

readers == <<rpc, rout, rEarly>>

passHist == <<sawCenter, passCleared, earlyReq, lateReq>>

runHist == <<zeroSentAfterStop, shutdownRuns, published>>

trace == <<filter_out, evalActive, lastPass, lastCall, lateIters, t_elapsed,
           centerIn, pendingReq, raceReq>>

vars == <<config, flags, centering, bufs, pub, locals, curves, wpc, phase,
          usleep_arg, dpc, readers, sent, passHist, runHist, trace>>

\* positions of the worker inside Tracker::logic
InLogic == {"acquire", "filter", "map", "center", "clear", "capture", "apply",
            "send", "lock", "publish", "publishraw", "unlock"}

\* Tracker::Tracker: the flags and t_b from the initialiser list, every other
\* member default-constructed
InitWith(settings, mappings, libraries) ==
  /\ s = settings
  /\ m = mappings
  /\ libs = libraries
  /\ centerp = FALSE
  /\ enabledp = TRUE
  /\ should_quit = FALSE
  /\ t_b = [i \in 0..2 |-> 0]
  /\ q_b = QuatDefault
  /\ newpose = PoseDefault
  /\ final_raw = PoseDefault
  /\ output_pose = PoseDefault
  /\ raw_6dof = PoseDefault
  /\ mtx = MtxFree
  /\ filtered_pose = PoseDefault
  /\ mapped_pose = PoseDefault
  /\ centered = PoseDefault
  /\ centered_ = PoseDefault
  /\ mapped = PoseDefault
  /\ curveActive = [i \in Axes |-> FALSE]
  /\ curveAltActive = [i \in Axes |-> FALSE]
  /\ wpc = "idle"
  /\ phase = "Idle"
  /\ usleep_arg = 0
  /\ dpc = "alive"
  /\ rpc = [r \in Readers |-> "idle"]
  /\ rout = [r \in Readers |-> [raw |-> PoseDefault, mapped |-> PoseDefault]]
  /\ rEarly = [r \in Readers |-> FALSE]
  /\ sent = PoseDefault
  /\ sawCenter = "unread"
  /\ passCleared = FALSE
  /\ earlyReq = FALSE
  /\ lateReq = FALSE
  /\ zeroSentAfterStop = FALSE
  /\ shutdownRuns = 0
  /\ published = FALSE
  /\ filter_out = PoseDefault
  /\ evalActive = [i \in Axes |-> FALSE]
  /\ lastPass = [raw |-> PoseDefault, mapped |-> PoseDefault]
  /\ lastCall = "none"
  /\ lateIters = 0
  /\ t_elapsed = 0
  /\ centerIn = {}
  /\ pendingReq = FALSE
  /\ raceReq = FALSE

\* the configurations: the identity mapping without a filter, the mixed
\* mapping with and without one, each under every setting
Init ==
  \E settings \in SettingsSets, mappings \in MappingSets,
     libraries \in LibrarySets :
    /\ libraries.pFilter => mappings = MixedMappings
    /\ InitWith(settings, mappings, libraries)

\* --------------------------------------------------------------- the worker
\* QThread::start: run() begins
Start ==
  /\ wpc = "idle"
  /\ dpc = "alive"
  /\ wpc' = "check"
  /\ phase' = "Running"
  /\ UNCHANGED <<config, flags, centering, bufs, pub, locals, curves,
                 usleep_arg, dpc, readers, sent, passHist, runHist>>
  /\ UNCHANGED trace

\* while (!should_quit)
\* the loop going on whatever should_quit holds
LoopCheck_ignoresquit ==
  /\ wpc = "check"
  /\ wpc' = "sample"
  /\ usleep_arg' = 0
  /\ UNCHANGED <<config, flags, centering, bufs, pub, locals, curves, phase,
                 dpc, readers, sent, passHist, runHist>>
  /\ t_elapsed' = 0
  /\ UNCHANGED <<filter_out, evalActive, lastPass, lastCall, lateIters,
                 centerIn, pendingReq, raceReq>>

LoopCheck ==
  /\ wpc = "check"
  /\ wpc' = IF should_quit THEN "origin" ELSE "sample"
  /\ usleep_arg' = 0
  /\ UNCHANGED <<config, flags, centering, bufs, pub, locals, curves, phase,
                 dpc, readers, sent, passHist, runHist>>
  /\ t_elapsed' = 0
  /\ UNCHANGED <<filter_out, evalActive, lastPass, lastCall, lateIters,
                 centerIn, pendingReq, raceReq>>

\* t.start(); libs.pTracker->data(newpose); logic() is entered
Sample ==
  /\ wpc = "sample"
  /\ newpose' \in libs.pTracker
  /\ wpc' = "acquire"
  /\ UNCHANGED <<config, flags, centering, final_raw, pub, locals, curves,
                 phase, usleep_arg, dpc, readers, sent, passHist, runHist>>
  /\ lateIters' = IF should_quit /\ lateIters < MaxLateIters
                  THEN lateIters + 1 ELSE lateIters
  /\ UNCHANGED <<filter_out, evalActive, lastPass, lastCall, t_elapsed,
                 centerIn, pendingReq, raceReq>>

\* LogicAcquire without the test of enabledp
LogicAcquire_ungated ==
  /\ wpc = "acquire"
  /\ final_raw' = newpose
  /\ wpc' = "filter"
  /\ UNCHANGED <<config, flags, centering, newpose, pub, locals, curves,
                 phase, usleep_arg, dpc, readers, sent, passHist, runHist>>
  /\ UNCHANGED trace

\* if (enabledp) final_raw = newpose
LogicAcquire ==
  /\ wpc = "acquire"
  /\ final_raw' = IF enabledp THEN newpose ELSE final_raw
  /\ wpc' = "filter"
  /\ UNCHANGED <<config, flags, centering, newpose, pub, locals, curves,
                 phase, usleep_arg, dpc, readers, sent, passHist, runHist>>
  /\ UNCHANGED trace

\* libs.pFilter->filter(final_raw, filtered_pose), or the identity
LogicFilter ==
  /\ wpc = "filter"
  /\ filtered_pose' \in IF libs.pFilter THEN {final_raw, FilterLag}
                                         ELSE {final_raw}
  /\ wpc' = "map"
  /\ UNCHANGED <<config, flags, centering, bufs, pub, mapped_pose, centered,
                 centered_, mapped, curves, phase, usleep_arg, dpc, readers,
                 sent, passHist, runHist>>
  /\ filter_out' = filtered_pose'
  /\ UNCHANGED <<evalActive, lastPass, lastCall, lateIters, t_elapsed,
                 centerIn, pendingReq, raceReq>>

\* the inversion loop and the six calls of map
\* map switching the selected curve on without switching the other one off
LogicMap_keepsother ==
  /\ wpc = "map"
  /\ LET inverted == Inverted(filtered_pose, m)
     IN /\ filtered_pose' = inverted
        /\ mapped_pose' = MappedPose(inverted, m)
        /\ curveActive' =
             [i \in Axes |->
                curveActive[i] \/ ~map_altp(inverted[i], m[i].invert, m[i])]
        /\ curveAltActive' =
             [i \in Axes |->
                curveAltActive[i] \/ map_altp(inverted[i], m[i].invert, m[i])]
  /\ wpc' = "center"
  /\ UNCHANGED <<config, flags, centering, bufs, pub, centered, centered_,
                 mapped, phase, usleep_arg, dpc, readers, sent, passHist,
                 runHist>>
  /\ evalActive' = [i \in Axes |->
       IF map_altp(filtered_pose'[i], m[i].invert, m[i])
       THEN curveAltActive'[i] ELSE curveActive'[i]]
  /\ UNCHANGED <<filter_out, lastPass, lastCall, lateIters, t_elapsed,
                 centerIn, pendingReq, raceReq>>

LogicMap ==
  /\ wpc = "map"
  /\ LET inverted == Inverted(filtered_pose, m)
     IN /\ filtered_pose' = inverted
        /\ mapped_pose' = MappedPose(inverted, m)
        /\ curveActive' =
             [i \in Axes |-> ~map_altp(inverted[i], m[i].invert, m[i])]
        /\ curveAltActive' =
             [i \in Axes |-> map_altp(inverted[i], m[i].invert, m[i])]
  /\ wpc' = "center"
  /\ UNCHANGED <<config, flags, centering, bufs, pub, centered, centered_,
                 mapped, phase, usleep_arg, dpc, readers, sent, passHist,
                 runHist>>
  /\ evalActive' = [i \in Axes |->
       IF map_altp(filtered_pose'[i], m[i].invert, m[i])
       THEN curveAltActive'[i] ELSE curveActive'[i]]
  /\ UNCHANGED <<filter_out, lastPass, lastCall, lateIters, t_elapsed,
                 centerIn, pendingReq, raceReq>>

\* LogicReadCenter entering the capture branch whatever centerp holds
LogicReadCenter_always ==
  /\ wpc = "center"
  /\ wpc' = "clear"
  /\ sawCenter' = IF centerp THEN "set" ELSE "clear"
  /\ lateReq' = FALSE
  /\ UNCHANGED <<config, flags, centering, bufs, pub, locals, curves, phase,
                 usleep_arg, dpc, readers, sent, passCleared, earlyReq,
                 runHist>>
  /\ UNCHANGED trace

\* if (centerp)
LogicReadCenter ==
  /\ wpc = "center"
  /\ wpc' = IF centerp THEN "clear" ELSE "apply"
  /\ sawCenter' = IF centerp THEN "set" ELSE "clear"
  /\ lateReq' = FALSE
  /\ UNCHANGED <<config, flags, centering, bufs, pub, locals, curves, phase,
                 usleep_arg, dpc, readers, sent, passCleared, earlyReq,
                 runHist>>
  /\ UNCHANGED trace

\* centerp = false
LogicClearCenter ==
  /\ wpc = "clear"
  /\ centerp' = FALSE
  /\ passCleared' = TRUE
  /\ wpc' = "capture"
  /\ UNCHANGED <<config, enabledp, should_quit, centering, bufs, pub, locals,
                 curves, phase, usleep_arg, dpc, readers, sent, sawCenter,
                 earlyReq, lateReq, runHist>>
  /\ UNCHANGED trace

\* t_b = filtered_pose[0..2]; q_b = Quat::from_euler_rads(mapped_pose ypr)
\* the capture latching the filter's output as it was before the inversion
LogicCapture_preinvert ==
  /\ wpc = "capture"
  /\ t_b' = [i \in 0..2 |-> filter_out[i]]
  /\ q_b' = from_euler_rads(mapped_pose[Yaw], mapped_pose[Pitch],
                            mapped_pose[Roll])
  /\ wpc' = "apply"
  /\ earlyReq' = FALSE
  /\ UNCHANGED <<config, flags, bufs, pub, locals, curves, phase, usleep_arg,
                 dpc, readers, sent, sawCenter, passCleared, lateReq, runHist>>
  /\ centerIn' = {filter_out}
  /\ pendingReq' = FALSE
  /\ raceReq' = FALSE
  /\ UNCHANGED <<filter_out, evalActive, lastPass, lastCall, lateIters,
                 t_elapsed>>

LogicCapture ==
  /\ wpc = "capture"
  /\ t_b' = [i \in 0..2 |-> filtered_pose[i]]
  /\ q_b' = from_euler_rads(mapped_pose[Yaw], mapped_pose[Pitch],
                            mapped_pose[Roll])
  /\ wpc' = "apply"
  /\ earlyReq' = FALSE
  /\ UNCHANGED <<config, flags, bufs, pub, locals, curves, phase, usleep_arg,
                 dpc, readers, sent, sawCenter, passCleared, lateReq, runHist>>
  /\ centerIn' = {filter_out}
  /\ pendingReq' = FALSE
  /\ raceReq' = FALSE
  /\ UNCHANGED <<filter_out, evalActive, lastPass, lastCall, lateIters,
                 t_elapsed>>

\* LogicApply with the QMutexLocker constructed before the protocol call
LogicApply_locks ==
  /\ wpc = "apply"
  /\ mtx = MtxFree
  /\ mtx' = MtxWorker
  /\ centered' = Centered(mapped_pose, t_b, q_b)
  /\ centered_' = Compensated(centered', s)
  /\ mapped' = Remap(centered_', m)
  /\ wpc' = "send"
  /\ UNCHANGED <<config, flags, centering, bufs, output_pose, raw_6dof,
                 filtered_pose, mapped_pose, curves, phase, usleep_arg, dpc,
                 readers, sent, passHist, runHist>>
  /\ UNCHANGED trace

\* centering apply, translation compensation and axis remap
LogicApply ==
  /\ wpc = "apply"
  /\ centered' = Centered(mapped_pose, t_b, q_b)
  /\ centered_' = Compensated(centered', s)
  /\ mapped' = Remap(centered_', m)
  /\ wpc' = "send"
  /\ UNCHANGED <<config, flags, centering, bufs, pub, filtered_pose,
                 mapped_pose, curves, phase, usleep_arg, dpc, readers, sent,
                 passHist, runHist>>
  /\ UNCHANGED trace

\* libs.pProtocol->pose(mapped)
\* logic clearing centerp once more after the centering, before it sends
LogicSend_clears ==
  /\ wpc = "send"
  /\ sent' = mapped
  /\ zeroSentAfterStop' = (zeroSentAfterStop \/ (should_quit /\ IsZero(mapped)))
  /\ centerp' = FALSE
  /\ wpc' = "lock"
  /\ UNCHANGED <<config, enabledp, should_quit, centering, bufs, pub, locals,
                 curves, phase, usleep_arg, dpc, readers, passHist,
                 shutdownRuns, published>>
  /\ lastCall' = "logic"
  /\ UNCHANGED <<filter_out, evalActive, lastPass, lateIters, t_elapsed,
                 centerIn, pendingReq, raceReq>>

LogicSend ==
  /\ wpc = "send"
  /\ sent' = mapped
  /\ zeroSentAfterStop' = (zeroSentAfterStop \/ (should_quit /\ IsZero(mapped)))
  /\ wpc' = "lock"
  /\ UNCHANGED <<config, flags, centering, bufs, pub, locals, curves, phase,
                 usleep_arg, dpc, readers, passHist, shutdownRuns, published>>
  /\ lastCall' = "logic"
  /\ UNCHANGED <<filter_out, evalActive, lastPass, lateIters, t_elapsed,
                 centerIn, pendingReq, raceReq>>

\* QMutexLocker foo(&mtx)
LogicLock ==
  /\ wpc = "lock"
  /\ mtx = MtxFree
  /\ mtx' = MtxWorker
  /\ wpc' = "publish"
  /\ UNCHANGED <<config, flags, centering, bufs, output_pose, raw_6dof,
                 locals, curves, phase, usleep_arg, dpc, readers, sent,
                 passHist, runHist>>
  /\ UNCHANGED trace

\* output_pose = mapped, under the lock
LogicPublish ==
  /\ wpc = "publish"
  /\ output_pose' = mapped
  /\ wpc' = "publishraw"
  /\ UNCHANGED <<config, flags, centering, bufs, raw_6dof, mtx, locals,
                 curves, phase, usleep_arg, dpc, readers, sent, passHist,
                 runHist>>
  /\ UNCHANGED trace

\* raw_6dof = final_raw, still under the lock
LogicPublishRaw ==
  /\ wpc = "publishraw"
  /\ raw_6dof' = final_raw
  /\ published' = TRUE
  /\ wpc' = "unlock"
  /\ UNCHANGED <<config, flags, centering, bufs, output_pose, mtx, locals,
                 curves, phase, usleep_arg, dpc, readers, sent, passHist,
                 zeroSentAfterStop, shutdownRuns>>
  /\ lastPass' = [raw |-> final_raw, mapped |-> sent]
  /\ UNCHANGED <<filter_out, evalActive, lastCall, lateIters, t_elapsed,
                 centerIn, pendingReq, raceReq>>

\* LogicUnlock with centerp = false executed at the end of every pass
LogicUnlock_clears ==
  /\ wpc = "unlock"
  /\ mtx' = MtxFree
  /\ wpc' = IF phase = "Running" THEN "sleep" ELSE "reset"
  /\ centerp' = FALSE
  /\ filtered_pose' = PoseDefault
  /\ mapped_pose' = PoseDefault
  /\ centered' = PoseDefault
  /\ centered_' = PoseDefault
  /\ mapped' = PoseDefault
  /\ sent' = PoseDefault
  /\ sawCenter' = "unread"
  /\ passCleared' = FALSE
  /\ earlyReq' = FALSE
  /\ UNCHANGED <<config, enabledp, should_quit, centering, bufs, output_pose,
                 raw_6dof, curves, phase, usleep_arg, dpc, readers, lateReq,
                 runHist>>
  /\ filter_out' = PoseDefault
  /\ evalActive' = [i \in Axes |-> FALSE]
  /\ UNCHANGED <<lastPass, lastCall, lateIters, t_elapsed, centerIn,
                 pendingReq, raceReq>>

\* the locker and the locals go out of scope; logic returns to run
LogicUnlock ==
  /\ wpc = "unlock"
  /\ mtx' = MtxFree
  /\ wpc' = IF phase = "Running" THEN "sleep" ELSE "reset"
  /\ filtered_pose' = PoseDefault
  /\ mapped_pose' = PoseDefault
  /\ centered' = PoseDefault
  /\ centered_' = PoseDefault
  /\ mapped' = PoseDefault
  /\ sent' = PoseDefault
  /\ sawCenter' = "unread"
  /\ passCleared' = FALSE
  /\ earlyReq' = FALSE
  /\ UNCHANGED <<config, flags, centering, bufs, output_pose, raw_6dof,
                 curves, phase, usleep_arg, dpc, readers, lateReq, runHist>>
  /\ filter_out' = PoseDefault
  /\ evalActive' = [i \in Axes |-> FALSE]
  /\ UNCHANGED <<lastPass, lastCall, lateIters, t_elapsed, centerIn,
                 pendingReq, raceReq>>

\* long q = sleep_ms * 1000L - t.elapsed()/1000L; usleep(std::max(1L, q))
\* the sleep without std::max: usleep(q)
Sleep_nomax ==
  /\ wpc = "sleep"
  /\ \E elapsed \in Elapsed :
       /\ t_elapsed' = elapsed
       /\ usleep_arg' = sleep_ms * 1000 - elapsed \div 1000
  /\ wpc' = "check"
  /\ UNCHANGED <<config, flags, centering, bufs, pub, locals, curves, phase,
                 dpc, readers, sent, passHist, runHist>>
  /\ UNCHANGED <<filter_out, evalActive, lastPass, lastCall, lateIters,
                 centerIn, pendingReq, raceReq>>

Sleep ==
  /\ wpc = "sleep"
  /\ \E elapsed \in Elapsed :
       /\ t_elapsed' = elapsed
       /\ usleep_arg' = Max(1, sleep_ms * 1000 - elapsed \div 1000)
  /\ wpc' = "check"
  /\ UNCHANGED <<config, flags, centering, bufs, pub, locals, curves, phase,
                 dpc, readers, sent, passHist, runHist>>
  /\ UNCHANGED <<filter_out, evalActive, lastPass, lastCall, lateIters,
                 centerIn, pendingReq, raceReq>>

\* do one last pass with origin pose: newpose = 0; logic() is entered
LastPass ==
  /\ wpc = "origin"
  /\ newpose' = [i \in Axes |-> 0]
  /\ phase' = "Stopping"
  /\ shutdownRuns' = shutdownRuns + 1
  /\ wpc' = "acquire"
  /\ UNCHANGED <<config, flags, centering, final_raw, pub, locals, curves,
                 usleep_arg, dpc, readers, sent, passHist, zeroSentAfterStop,
                 published>>
  /\ lateIters' = 0
  /\ UNCHANGED <<filter_out, evalActive, lastPass, lastCall, t_elapsed,
                 centerIn, pendingReq, raceReq>>

\* ResetPose sending the last published pose instead of a fresh Pose
ResetPose_lastpose ==
  /\ wpc = "reset"
  /\ sent' = output_pose
  /\ zeroSentAfterStop' = (zeroSentAfterStop \/ (should_quit /\ IsZero(output_pose)))
  /\ wpc' = "deactivate"
  /\ UNCHANGED <<config, flags, centering, bufs, pub, locals, curves, phase,
                 usleep_arg, dpc, readers, passHist, shutdownRuns, published>>
  /\ lastCall' = "origin"
  /\ UNCHANGED <<filter_out, evalActive, lastPass, lateIters, t_elapsed,
                 centerIn, pendingReq, raceReq>>

\* Pose p; libs.pProtocol->pose(p)
ResetPose ==
  /\ wpc = "reset"
  /\ sent' = PoseDefault
  /\ zeroSentAfterStop' = (zeroSentAfterStop \/ (should_quit /\ IsZero(PoseDefault)))
  /\ wpc' = "deactivate"
  /\ UNCHANGED <<config, flags, centering, bufs, pub, locals, curves, phase,
                 usleep_arg, dpc, readers, passHist, shutdownRuns, published>>
  /\ lastCall' = "origin"
  /\ UNCHANGED <<filter_out, evalActive, lastPass, lateIters, t_elapsed,
                 centerIn, pendingReq, raceReq>>

\* setTrackingActive(false) on curve and curveAlt of every axis; run returns
\* the last loop of run switching off the primary curves only
Deactivate_primaryonly ==
  /\ wpc = "deactivate"
  /\ curveActive' = [i \in Axes |-> FALSE]
  /\ wpc' = "stopped"
  /\ phase' = "Stopped"
  /\ UNCHANGED <<config, flags, centering, bufs, pub, locals, curveAltActive,
                 usleep_arg, dpc, readers, sent, passHist, runHist>>
  /\ UNCHANGED trace

Deactivate ==
  /\ wpc = "deactivate"
  /\ curveActive' = [i \in Axes |-> FALSE]
  /\ curveAltActive' = [i \in Axes |-> FALSE]
  /\ wpc' = "stopped"
  /\ phase' = "Stopped"
  /\ UNCHANGED <<config, flags, centering, bufs, pub, locals, usleep_arg,
                 dpc, readers, sent, passHist, runHist>>
  /\ UNCHANGED trace

\* ------------------------------------------------------- the other threads
\* requestCenter(): sets the one-shot centering flag
RequestCenter ==
  /\ dpc = "alive"
  /\ centerp' = TRUE
  /\ earlyReq' = (earlyReq \/ (wpc \in {"filter", "map", "center"} /\ ~centerp))
  /\ lateReq' = (lateReq \/ wpc \notin {"filter", "map", "center", "clear"})
  /\ UNCHANGED <<config, enabledp, should_quit, centering, bufs, pub, locals,
                 curves, wpc, phase, usleep_arg, dpc, readers, sent,
                 sawCenter, passCleared, runHist>>
  /\ pendingReq' = TRUE
  /\ raceReq' = (raceReq \/ wpc = "clear")
  /\ UNCHANGED <<filter_out, evalActive, lastPass, lastCall, lateIters,
                 t_elapsed, centerIn>>

\* setEnabled(b)
SetEnabled ==
  /\ dpc = "alive"
  /\ \E b \in BOOLEAN : enabledp' = b
  /\ UNCHANGED <<config, centerp, should_quit, centering, bufs, pub, locals,
                 curves, wpc, phase, usleep_arg, dpc, readers, sent, passHist,
                 runHist>>
  /\ UNCHANGED trace

\* requestStop(): sets the stop flag
RequestStop ==
  /\ dpc = "alive"
  /\ should_quit' = TRUE
  /\ UNCHANGED <<config, centerp, enabledp, centering, bufs, pub, locals,
                 curves, wpc, phase, usleep_arg, dpc, readers, sent, passHist,
                 runHist>>
  /\ UNCHANGED trace

\* ~Tracker: should_quit = true
DtorQuit ==
  /\ dpc = "alive"
  /\ \A r \in Readers : rpc[r] = "idle"
  /\ should_quit' = TRUE
  /\ dpc' = "wait"
  /\ UNCHANGED <<config, centerp, enabledp, centering, bufs, pub, locals,
                 curves, wpc, phase, usleep_arg, readers, sent, passHist,
                 runHist>>
  /\ UNCHANGED trace

\* DtorWait returning without waiting for run() to return
DtorWait_nojoin ==
  /\ dpc = "wait"
  /\ dpc' = "destroyed"
  /\ UNCHANGED <<config, flags, centering, bufs, pub, locals, curves, wpc,
                 phase, usleep_arg, readers, sent, passHist, runHist>>
  /\ UNCHANGED trace

\* ~Tracker: wait() returns once run() has returned (or was never started)
DtorWait ==
  /\ dpc = "wait"
  /\ wpc \in {"idle", "stopped"}
  /\ dpc' = "destroyed"
  /\ UNCHANGED <<config, flags, centering, bufs, pub, locals, curves, wpc,
                 phase, usleep_arg, readers, sent, passHist, runHist>>
  /\ UNCHANGED trace

\* get_raw_and_mapped_poses is called by reader r
GetCall(r) ==
  /\ dpc = "alive"
  /\ rpc[r] = "idle"
  /\ rpc' = [rpc EXCEPT ![r] = "lock"]
  /\ UNCHANGED <<config, flags, centering, bufs, pub, locals, curves, wpc,
                 phase, usleep_arg, dpc, rout, rEarly, sent, passHist,
                 runHist>>
  /\ UNCHANGED trace

\* QMutexLocker foo(&mtx)
\* GetLock going on to the copy without waiting for mtx
GetLock_nowait(r) ==
  /\ rpc[r] = "lock"
  /\ rpc' = [rpc EXCEPT ![r] = "copy"]
  /\ UNCHANGED <<config, flags, centering, bufs, pub, locals, curves, wpc,
                 phase, usleep_arg, dpc, rout, rEarly, sent, passHist,
                 runHist>>
  /\ UNCHANGED trace

GetLock(r) ==
  /\ rpc[r] = "lock"
  /\ mtx = MtxFree
  /\ mtx' = r
  /\ rpc' = [rpc EXCEPT ![r] = "copy"]
  /\ UNCHANGED <<config, flags, centering, bufs, output_pose, raw_6dof,
                 locals, curves, wpc, phase, usleep_arg, dpc, rout, rEarly,
                 sent, passHist, runHist>>
  /\ UNCHANGED trace

\* GetCopy reading the worker's working buffers instead of the published ones
GetCopy_unpublished(r) ==
  /\ rpc[r] = "copy"
  /\ rout' = [rout EXCEPT ![r] = [raw |-> final_raw, mapped |-> mapped]]
  /\ rEarly' = [rEarly EXCEPT ![r] = ~published]
  /\ rpc' = [rpc EXCEPT ![r] = "unlock"]
  /\ UNCHANGED <<config, flags, centering, bufs, pub, locals, curves, wpc,
                 phase, usleep_arg, dpc, sent, passHist, runHist>>
  /\ UNCHANGED trace

\* raw[i] = raw_6dof(i); mapped[i] = output_pose(i)
GetCopy(r) ==
  /\ rpc[r] = "copy"
  /\ rout' = [rout EXCEPT ![r] = [raw |-> raw_6dof, mapped |-> output_pose]]
  /\ rEarly' = [rEarly EXCEPT ![r] = ~published]
  /\ rpc' = [rpc EXCEPT ![r] = "unlock"]
  /\ UNCHANGED <<config, flags, centering, bufs, pub, locals, curves, wpc,
                 phase, usleep_arg, dpc, sent, passHist, runHist>>
  /\ UNCHANGED trace

\* the locker goes out of scope; the call returns and the caller's raw and
\* mapped buffers leave the model
GetUnlock(r) ==
  /\ rpc[r] = "unlock"
  /\ mtx' = MtxFree
  /\ rpc' = [rpc EXCEPT ![r] = "idle"]
  /\ rout' = [rout EXCEPT ![r] = [raw |-> PoseDefault, mapped |-> PoseDefault]]
  /\ rEarly' = [rEarly EXCEPT ![r] = FALSE]
  /\ UNCHANGED <<config, flags, centering, bufs, output_pose, raw_6dof,
                 locals, curves, wpc, phase, usleep_arg, dpc, sent, passHist,
                 runHist>>
  /\ UNCHANGED trace

\* ----------------------------------------------------------- specification
Worker ==
  \/ Start
  \/ LoopCheck
  \/ Sample
  \/ LogicAcquire
  \/ LogicFilter
  \/ LogicMap
  \/ LogicReadCenter
  \/ LogicClearCenter
  \/ LogicCapture
  \/ LogicApply
  \/ LogicSend
  \/ LogicLock
  \/ LogicPublish
  \/ LogicPublishRaw
  \/ LogicUnlock
  \/ Sleep
  \/ LastPass
  \/ ResetPose
  \/ Deactivate

Reader(r) ==
  \/ GetCall(r)
  \/ GetLock(r)
  \/ GetCopy(r)
  \/ GetUnlock(r)

Next ==
  \/ Worker
  \/ RequestCenter
  \/ SetEnabled
  \/ RequestStop
  \/ DtorQuit
  \/ DtorWait
  \/ \E r \in Readers : Reader(r)

Spec == Init /\ [][Next]_vars

\* ------------------------------------------------------------ with fairness
\* one configuration: compensation on, the mapping with inverted axes,
\* alternate curves, zero offsets and remapped sources, no filter, a raw
\* source that keeps delivering one pose
InitLive ==
  InitWith([tcomp_p |-> TRUE, tcomp_tz |-> FALSE],
           MixedMappings,
           [pFilter |-> FALSE,
            pTracker |-> {MkPose(<<1, -2, 3, 1, 0, 1>>)}])

\* the worker thread keeps running, a thread waiting for mtx gets it once it
\* is released often enough, and a reader inside the accessor finishes it
Fairness ==
  /\ WF_vars(Worker)
  /\ SF_vars(LogicLock)
  /\ \A r \in Readers : WF_vars(GetCopy(r) \/ GetUnlock(r))

FairSpec == InitLive /\ [][Next]_vars /\ Fairness

\* ------------------------------------------------------------------ claims
\* positions of the worker at which the pass has sent its pose
AfterSend == {"lock", "publish", "publishraw", "unlock"}

InRange(k) == k >= 0 /\ k < 6

\* C1: in every pass, for every output axis i whose src = k lies in [0,6),
\* the value sent to the protocol and published as mapped[i] is the
\* compensated/centered pose at index k
AxisRemapInRange ==
  \A i \in Axes :
    InRange(m[i].src) =>
      /\ wpc \in AfterSend => sent[i] = centered_[m[i].src]
      /\ wpc = "unlock" => output_pose[i] = centered_[m[i].src]

\* C2: in every pass, for every output axis i whose src is < 0 or >= 6, the
\* value sent to the protocol and the published mapped[i] are exactly 0
AxisRemapOutOfRange ==
  \A i \in Axes :
    ~InRange(m[i].src) =>
      /\ wpc \in AfterSend => sent[i] = 0
      /\ output_pose[i] = 0

\* a pass was published whose upstream value on an out-of-range axis is not 0
AxisRemapOutOfRangeSeen ==
  /\ wpc = "unlock"
  /\ \E i \in Axes : ~InRange(m[i].src) /\ centered_[i] # 0 /\ final_raw[i] # 0

\* C3: once the stop flag is set in a run whose worker was started, the
\* protocol eventually receives, after the stop request, an all-zero pose
StopSendsZero == (should_quit /\ wpc # "idle") ~> zeroSentAfterStop

\* the worker has stopped and the pose its last pass sent was not the origin
StopSendsZeroSeen ==
  /\ wpc = "stopped"
  /\ zeroSentAfterStop
  /\ ~IsZero(output_pose)

\* C4: the pass made after the stop flag is observed is the only one, and the
\* raw pose it filters and publishes is all-zero, whatever enabledp holds
FinalPassRawZero ==
  /\ shutdownRuns <= 1
  /\ (phase = "Stopping" /\ wpc \in (InLogic \ {"acquire"})) => IsZero(final_raw)
  /\ (phase = "Stopping" /\ wpc = "unlock") => IsZero(raw_6dof)
  /\ phase = "Stopped" => IsZero(raw_6dof)

\* C5: t_b and q_b change only in a pass that found centerp set and has
\* cleared it; a pass that found it clear leaves them as they were
CenteringLatch ==
  [][ /\ (t_b' # t_b \/ q_b' # q_b) => (sawCenter = "set" /\ passCleared)
      /\ sawCenter = "clear" => (t_b' = t_b /\ q_b' = q_b)
      /\ (sawCenter' = "set" /\ wpc' \in (InLogic \ {"center", "clear"})) => passCleared'
    ]_vars

\* a pass found the flag clear while a centre captured earlier is still held
CenteringLatchSeen ==
  /\ wpc = "apply"
  /\ sawCenter = "clear"
  /\ \E i \in 0..2 : t_b[i] # 0
  /\ q_b # QuatDefault

\* C6: a pass run while enabledp is false leaves final_raw unchanged, a pass
\* run while it is true sets final_raw to newpose; nothing else writes
\* final_raw, and the pass publishes final_raw as the raw pose
EnabledGating ==
  [][ /\ (wpc = "acquire" /\ wpc' # wpc /\ enabledp) => final_raw' = newpose
      /\ (wpc = "acquire" /\ wpc' # wpc /\ ~enabledp) => final_raw' = final_raw
      /\ wpc # "acquire" => final_raw' = final_raw
      /\ (wpc = "filter" /\ wpc' # wpc /\ ~libs.pFilter) => filtered_pose' = final_raw
      /\ (wpc = "publishraw" /\ wpc' # wpc) => raw_6dof' = final_raw
    ]_vars

\* a disabled pass is working on an earlier non-zero raw pose, not on newpose
EnabledGatingSeen ==
  /\ wpc = "filter"
  /\ ~enabledp
  /\ ~IsZero(final_raw)
  /\ final_raw # newpose

\* C7, as stated: a centre request issued while a pass is in progress, after
\* its step 1, does not change the centering state in that pass
NoMidPassCenter == [][earlyReq => (t_b' = t_b /\ q_b' = q_b)]_vars

\* C7, amended: only a request issued after the pass has tested centerp is
\* without effect on that pass; if the test found the flag clear the request
\* stays pending and the next test of centerp finds it; a fresh request issued
\* between step 1 and the test is found by the test of the same pass
CenterAfterTest ==
  [][ /\ sawCenter = "clear" => (t_b' = t_b /\ q_b' = q_b)
      /\ lateReq' => centerp'
      /\ (lateReq /\ wpc = "center" /\ wpc' # wpc) => (sawCenter' = "set" /\ wpc' = "clear")
      /\ (earlyReq' /\ sawCenter' # "unread") => sawCenter' = "set"
    ]_vars

\* a pass that found the flag clear is still running with a request pending
CenterAfterTestSeen ==
  /\ wpc \in {"apply", "send", "lock", "publish", "publishraw", "unlock"}
  /\ sawCenter = "clear"
  /\ lateReq
  /\ centerp
  /\ \E i \in 0..2 : t_b[i] # 0

\* C8: however often the stop flag is set the shutdown sequence runs once,
\* and ~Tracker completes only when the worker has returned from run (or was
\* never started), after which the worker touches nothing
StopJoins ==
  /\ shutdownRuns <= 1
  /\ wpc \in {"reset", "deactivate", "stopped"} => shutdownRuns = 1
  /\ dpc = "destroyed" => (should_quit /\ wpc \in {"idle", "stopped"})
  /\ dpc = "destroyed" => ~ENABLED Worker

\* the destructor has completed after a run that was started and stopped
StopJoinsSeen ==
  /\ dpc = "destroyed"
  /\ wpc = "stopped"
  /\ shutdownRuns = 1

\* the steps with which the holder of mtx releases it
HolderStep ==
  \/ LogicPublish
  \/ LogicPublishRaw
  \/ LogicUnlock
  \/ \E r \in Readers : GetCopy(r) \/ GetUnlock(r)

\* C9: the worker holds mtx only while copying the two buffers at the end of
\* a pass, never during a capability call or the sleep; a reader holds it
\* only while copying out; whoever holds it can go on to release it
LockDiscipline ==
  /\ mtx = MtxWorker <=> wpc \in {"publish", "publishraw", "unlock"}
  /\ \A r \in Readers : mtx = r <=> rpc[r] \in {"copy", "unlock"}
  /\ mtx # MtxFree => ENABLED HolderStep

\* the worker and a reader contend for mtx
LockDisciplineSeen ==
  \/ wpc = "lock" /\ \E r \in Readers : mtx = r
  \/ mtx = MtxWorker /\ \E r \in Readers : rpc[r] = "lock"

\* C10: a call of get_raw_and_mapped_poses that copies before any pass has
\* published returns all-zero raw and mapped poses
EarlyReadZero ==
  \A r \in Readers :
    (rpc[r] = "unlock" /\ rEarly[r]) => (IsZero(rout[r].raw) /\ IsZero(rout[r].mapped))

\* a reader copied while the first pass was already working on non-zero data
EarlyReadZeroSeen ==
  \E r \in Readers :
    /\ rpc[r] = "unlock"
    /\ rEarly[r]
    /\ wpc \in AfterSend
    /\ ~IsZero(final_raw)
    /\ ~IsZero(mapped)

\* C11: the raw and mapped poses one call of get_raw_and_mapped_poses returns
\* were both written by one pass, the pass that published last, and the mapped
\* pose is the pose that pass had sent to the protocol before publishing
SnapshotConsistency ==
  \A r \in Readers :
    rpc[r] = "unlock" =>
      /\ rout[r].raw = lastPass.raw
      /\ rout[r].mapped = lastPass.mapped

\* a reader holds a copy of a published non-zero pair while the worker is
\* already sending a different pose made from a different raw pose
SnapshotConsistencySeen ==
  \E r \in Readers :
    /\ rpc[r] = "unlock"
    /\ ~IsZero(rout[r].raw)
    /\ ~IsZero(rout[r].mapped)
    /\ wpc = "lock"
    /\ final_raw # rout[r].raw
    /\ sent # rout[r].mapped

\* the steps of a pass after the mapping loop
AfterMap == InLogic \ {"acquire", "filter", "map"}

\* C12: in every pass, the final one included, once the mapping loop has run
\* each axis has exactly one active curve, the alternate one iff
\* ((value < 0) == !invert) && altp for the inverted filtered value, and the
\* curve that was evaluated was active when it was evaluated
CurveActivation ==
  wpc \in AfterMap =>
    \A i \in Axes :
      LET useAlternate ==
            ((filtered_pose[i] < 0) = ~m[i].invert) /\ m[i].altp
      IN /\ curveAltActive[i] = useAlternate
         /\ curveActive[i] = ~useAlternate
         /\ evalActive[i]

\* the final pass of a disabled tracker, with an alternate curve active on
\* one axis and the primary curve active on another axis that has altp set
CurveActivationSeen ==
  /\ phase = "Stopping"
  /\ wpc = "apply"
  /\ ~enabledp
  /\ \E i \in Axes : curveAltActive[i] /\ ~curveActive[i]
  /\ \E i \in Axes : m[i].altp /\ curveActive[i] /\ ~curveAltActive[i]

\* C13: the mapped value of an axis is primary(value) + zero when altp is
\* off, whatever the value and the invert flag; with altp on it is
\* alternate(value) + zero for a negative value on a non-inverted axis and for
\* a non-negative value on an inverted axis, and primary(value) + zero
\* otherwise; value is the filtered value after inversion
CurveSelection ==
  wpc \in AfterMap =>
    \A i \in Axes :
      LET value == filtered_pose[i]
          primary == CurveValue(value) + m[i].zero
          alternate == CurveAltValue(value) + m[i].zero
      IN /\ ~m[i].altp => mapped_pose[i] = primary
         /\ (m[i].altp /\ ~m[i].invert /\ value < 0) =>
              mapped_pose[i] = alternate
         /\ (m[i].altp /\ ~m[i].invert /\ value >= 0) =>
              mapped_pose[i] = primary
         /\ (m[i].altp /\ m[i].invert /\ value < 0) =>
              mapped_pose[i] = primary
         /\ (m[i].altp /\ m[i].invert /\ value >= 0) =>
              mapped_pose[i] = alternate

\* one pass with an inverted axis without altp and, on axes with altp, a
\* non-inverted positive value and an inverted positive value, all on values
\* whose two curves differ
CurveSelectionSeen ==
  /\ wpc = "center"
  /\ \E i \in Axes : ~m[i].altp /\ m[i].invert /\ filtered_pose[i] # 0
  /\ \E i \in Axes : m[i].altp /\ ~m[i].invert /\ filtered_pose[i] > 0
  /\ \E i \in Axes : m[i].altp /\ m[i].invert /\ filtered_pose[i] > 0
  /\ \A i \in Axes : (m[i].altp /\ m[i].invert) =>
                        mapped_pose[i] = 2 * filtered_pose[i] + m[i].zero

\* C14: on every axis the value the curve mapping gets, and in a capture the
\* value latched into t_b on axes 0..2, is the filter's output negated iff
\* the axis has invert set; the centered translation of the pass is built
\* from these values only
InversionFirst ==
  [][LET value(i) == IF m[i].invert THEN -filter_out'[i] ELSE filter_out'[i]
     IN /\ wpc' \in AfterMap =>
             \A i \in Axes :
               /\ filtered_pose'[i] = value(i)
               /\ mapped_pose'[i] = map(value(i), m[i].invert, m[i])
        /\ (wpc = "capture" /\ wpc' = "apply") =>
             \A i \in 0..2 : t_b'[i] = value(i)
        /\ wpc' \in AfterSend \cup {"send"} =>
             \A i \in 0..2 :
               centered'[i] = map(value(i), m[i].invert, m[i]) - t_b'[i]
    ]_vars

\* a capture has latched the negated non-zero filter output of an inverted
\* translation axis
InversionFirstSeen ==
  /\ wpc = "apply"
  /\ sawCenter = "set"
  /\ \E i \in 0..2 :
       /\ m[i].invert
       /\ filter_out[i] # 0
       /\ t_b[i] = -filter_out[i]

\* C15: the pose handed to the remap equals the centered pose on all six
\* axes when tcomp_p is off; when it is on the three rotations equal the
\* centered rotations, and with tcomp_tz also on the z translation equals the
\* centered z translation
CompensationFrame ==
  wpc \in AfterSend \cup {"send"} =>
    /\ ~s.tcomp_p => \A i \in Axes : centered_[i] = centered[i]
    /\ s.tcomp_p => \A i \in {Yaw, Pitch, Roll} : centered_[i] = centered[i]
    /\ (s.tcomp_p /\ s.tcomp_tz) => centered_[TZ] = centered[TZ]

\* compensation with tcomp_tz has changed x or y of a pose whose rotation
\* would have changed z as well
CompensationFrameSeen ==
  /\ wpc = "send"
  /\ s.tcomp_p
  /\ s.tcomp_tz
  /\ \E i \in {TX, TY} : centered_[i] # centered[i]
  /\ centered[TZ] # 0
  /\ t_compensate(euler_to_rmat(<<centered[Yaw], centered[Pitch],
                                  centered[Roll]>>),
                  centered, FALSE)[3] # centered[TZ]

\* C16: once should_quit has been observed the worker makes the last pass,
\* which sends and publishes; then it sends one all-zero pose to the protocol
\* without writing output_pose or raw_6dof and with the curves as the last
\* pass left them; then it switches all twelve curves off. That zero pose is
\* the last call the protocol gets, and in Stopped no curve is active
ShutdownOrder ==
  [][/\ (wpc' = "reset" /\ wpc # "reset") =>
          /\ wpc = "unlock"
          /\ phase = "Stopping"
          /\ shutdownRuns = 1
          /\ lastCall = "logic"
          /\ output_pose = sent
          /\ lastPass = [raw |-> final_raw, mapped |-> sent]
     /\ (wpc = "reset" /\ wpc' # "reset") =>
          /\ wpc' = "deactivate"
          /\ lastCall' = "origin"
          /\ IsZero(sent')
          /\ output_pose' = output_pose
          /\ raw_6dof' = raw_6dof
          /\ \A i \in Axes : curveActive'[i] # curveAltActive'[i]
     /\ (wpc = "deactivate" /\ wpc' # "deactivate") =>
          /\ wpc' = "stopped"
          /\ lastCall' = lastCall
          /\ sent' = sent
     /\ wpc' = "stopped" =>
          /\ phase' = "Stopped"
          /\ lastCall' = "origin"
          /\ IsZero(sent')
          /\ \A i \in Axes : ~curveActive'[i] /\ ~curveAltActive'[i]
    ]_vars

\* the worker has stopped after a last pass that published a non-zero pose
ShutdownOrderSeen ==
  /\ wpc = "stopped"
  /\ lastCall = "origin"
  /\ ~IsZero(output_pose)
  /\ ~IsZero(lastPass.mapped)

\* C17: should_quit is read at the top of the loop only: a pass is left only
\* at its end, after it has sent and published, the loop is left only from
\* its top with should_quit set, and with should_quit set the top of the loop
\* always leaves; should_quit stays set, so at most one iteration begins with
\* should_quit set; and once should_quit is set a worker that has been
\* started gets to stopped
CancellationAtBoundary ==
  /\ [][/\ (wpc' \in {"sleep", "reset"} /\ wpc' # wpc) =>
              /\ wpc = "unlock"
              /\ lastCall = "logic"
              /\ lastPass = [raw |-> final_raw, mapped |-> sent]
        /\ (wpc \in InLogic /\ wpc' # wpc) =>
              wpc' \in InLogic \cup {"sleep", "reset"}
        /\ (wpc' = "origin" /\ wpc' # wpc) => (wpc = "check" /\ should_quit)
        /\ (wpc = "check" /\ wpc' # wpc /\ should_quit) => wpc' = "origin"
        /\ should_quit => should_quit'
        /\ lateIters' <= 1
       ]_vars
  /\ ((should_quit /\ wpc # "idle") ~> wpc = "stopped")

\* an iteration that began with should_quit already set has finished its pass
\* and is about to sleep
CancellationAtBoundarySeen ==
  /\ wpc = "sleep"
  /\ should_quit
  /\ lateIters = 1
  /\ lastCall = "logic"
  /\ phase = "Running"

\* C18: every loop iteration sleeps, and the microseconds it asks usleep for
\* are max(1, 3000 - elapsed) for the elapsed microseconds of the iteration:
\* at least 1 and at most 3000, also when more than 3000 have elapsed
SleepBound ==
  [][(wpc' = "check" /\ wpc # "check" /\ wpc # "idle") =>
       LET elapsedMicroseconds == t_elapsed' \div 1000
           remaining == 3000 - elapsedMicroseconds
       IN /\ wpc = "sleep"
          /\ elapsedMicroseconds >= 0
          /\ remaining >= 1 => usleep_arg' = remaining
          /\ remaining < 1 => usleep_arg' = 1
          /\ usleep_arg' >= 1
          /\ usleep_arg' <= 3000
    ]_vars

\* an iteration that took longer than the period has asked for the minimum
SleepBoundSeen ==
  /\ wpc = "check"
  /\ t_elapsed \div 1000 > 3000
  /\ usleep_arg = 1

\* C19: with identity curves, zero offsets, no inversion and no filter, the
\* pass that captures on a raw pose, and every later pass on the same raw pose
\* while that capture is the last one, has centered yaw, pitch and roll 0
CenteringCancels ==
  ( /\ wpc \in AfterSend \cup {"send"}
    /\ m = IdentityMappings
    /\ ~libs.pFilter
    /\ final_raw \in centerIn ) =>
      /\ centered[Yaw] = 0
      /\ centered[Pitch] = 0
      /\ centered[Roll] = 0

\* a pass that did not capture has centered a rotated raw pose on which an
\* earlier pass had captured
CenteringCancelsSeen ==
  /\ wpc = "send"
  /\ m = IdentityMappings
  /\ ~libs.pFilter
  /\ sawCenter = "clear"
  /\ final_raw \in centerIn
  /\ final_raw[Yaw] # 0
  /\ q_b # QuatDefault
  /\ centered[Yaw] = 0

\* C20: a centre request that no write of t_b and q_b has followed yet is
\* never dropped: centerp is still set, or the worker stands right before
\* the capture; a set centerp found by the test of a pass leads that pass
\* through the clearing to the capture, which writes t_b and q_b
NoLostCenterRequest ==
  [][/\ pendingReq' => (centerp' \/ wpc' = "capture")
     /\ (wpc = "center" /\ wpc' # wpc /\ centerp) => wpc' = "clear"
     /\ (wpc = "clear" /\ wpc' # wpc) => wpc' = "capture"
     /\ (wpc = "capture" /\ wpc' # wpc) =>
          /\ wpc' = "apply"
          /\ ~pendingReq'
          /\ t_b' = [i \in 0..2 |-> filtered_pose[i]]
          /\ q_b' = from_euler_rads(mapped_pose[Yaw], mapped_pose[Pitch],
                                    mapped_pose[Roll])
    ]_vars

\* a request arrived between the test of centerp and centerp = false; the
\* flag has been cleared since and the capture comes next
NoLostCenterRequestSeen ==
  /\ wpc = "capture"
  /\ raceReq
  /\ pendingReq
  /\ ~centerp

====
